---- MODULE Spec2Model ----
(***************************************************************************)
(* Subscription-bot: the subscription store and notification ledger        *)
(* (database.py), the two periodic sweeps (scheduler.py), the access       *)
(* gateway wrappers (utils.py) and the admin grant/extend/remove handlers  *)
(* (handlers.py).  Time is counted in whole seconds.                       *)
(***************************************************************************)
EXTENDS Integers, Sequences, FiniteSets, TLC

\* ------------------------------------------------------------------ bounds
\* user ids of the store specification and of the sweep specification
Users == {1, 2}
SweepUsers == {1}
\* the clock stops advancing once it has reached MaxTime (sweep specification)
MaxTime == 60
\* the clock stops advancing once it has reached MaxStoreTime (store specification)
MaxStoreTime == 3600
\* number of admin operations (grant, extend, remove) in one behaviour
MaxOps == 2
\* the same, force-check specification (grant, force check)
MaxForceOps == 2
\* the same, specification with storage failures
MaxFaultOps == 1
MaxFaultTime == 59
\* the same, specification of the expiry sweep over two subscribers
MaxPairOps == 2
MaxPairTime == 59
\* the same, specification of the removal
MaxRemoveOps == 2
MaxRemoveTime == 59
\* the same, specification with the listings
MaxListOps == 2
MaxListTime == 59
\* the same, specification with join requests
MaxJoinOps == 2
MaxJoinTime == 59
\* the same, specification with the startup
MaxMainOps == 1
MaxMainTime == 59
\* the same, fair specification of the notification sweep
MaxLiveOps == 1
\* the same, fair specification of the expiry sweep
MaxExpiryLiveOps == 2
\* the same, store specification
MaxStoreOps == 2

\* sent_at of an entry that was never marked sent (SQL NULL)
NULL == -1

\* durations (days, hours, minutes) an admin types, sweep specification
SweepDurations == { <<0, 0, 0>>, <<0, 0, 1>> }
\* durations an admin types, store specification: both bucket boundaries
\* from below and above, in every unit the handlers offer
StoreDurations ==
    { <<0, 0, 0>>, <<0, 0, 3>>, <<0, 0, 59>>, <<0, 0, 60>>, <<0, 1, 0>>,
      <<0, 0, 1439>>, <<0, 0, 1440>>, <<0, 24, 0>>, <<1, 0, 0>>, <<8, 0, 0>> }
\* clock steps
SweepSteps == {60}
StoreSteps == {3600}

VARIABLES
    now,            \* the wall clock, in seconds
    subscribers,    \* table subscribers: user_id -> row
    notifications,  \* table notifications: a set of rows, each with its id
    nextId,         \* the SERIAL sequence of notifications.id
    logs,           \* table logs, in insertion order
    banned,         \* the channel's ban list at the access gateway
    templates,      \* the kinds that have a message template
    main,           \* main(): its position, the configuration it read,
                    \* the components it has created
    adm,            \* the admin's update being handled: where its handler is suspended
    es,             \* the expiry sweep: where check_expired_subscriptions is suspended
    ns,             \* the notification sweep: where check_notifications is suspended
    ops,            \* admin operations started so far
    last,           \* the store operation the last step performed, if any
    hist            \* what the sweeps have done so far (history)

vars == << now, subscribers, notifications, nextId, logs, banned, templates,
           main, adm, es, ns, ops, last, hist >>

db == << subscribers, notifications, nextId, logs >>

\* ---------------------------------------------------------------- helpers
timedelta(days, hours, minutes, seconds) ==
    days * 86400 + hours * 3600 + minutes * 60 + seconds

\* f"{val}_{type_prefix}"
notification_type(val, type_prefix) == ToString(val) \o "_" \o type_prefix

\* all orders in which a query without ORDER BY may return the rows of S
RECURSIVE Orders(_)
Orders(S) ==
    IF S = {} THEN { <<>> }
    ELSE UNION { { <<x>> \o o : o \in Orders(S \ {x}) } : x \in S }

\* ---------------------------------------------------------- database.py
\* INSERT INTO notifications (user_id, notification_type, notification_date):
\* id from the sequence, sent DEFAULT FALSE, sent_at NULL
insert_notification(table, id, user_id, type, date) ==
    table \cup { [ id |-> id, user_id |-> user_id, notification_type |-> type,
                   notification_date |-> date, sent |-> FALSE, sent_at |-> NULL ] }

RECURSIVE insert_planned(_, _, _, _)
\* the INSERTs of one planning pass, in program order
insert_planned(table, id, user_id, planned) ==
    IF planned = <<>> THEN table
    ELSE insert_planned(
            insert_notification(table, id, user_id,
                                planned[1].notification_type,
                                planned[1].notification_date),
            id + 1, user_id, Tail(planned))

\* (mutant) the day bucket begins above 1440 minutes
add_intervals_gt(total_minutes) ==
    IF total_minutes > 1440
        THEN [ intervals |-> <<7, 3, 1, 0>>, type_prefix |-> "days" ]
    ELSE IF total_minutes >= 60
        THEN [ intervals |-> <<60, 30, 10, 0>>, type_prefix |-> "minutes" ]
    ELSE [ intervals |-> <<10, 5, 2, 1, 0>>, type_prefix |-> "minutes" ]

\* add_subscriber: the bucket chosen from total_minutes (an integer)
add_intervals(total_minutes) ==
    IF total_minutes >= 1440
        THEN [ intervals |-> <<7, 3, 1, 0>>, type_prefix |-> "days" ]
    ELSE IF total_minutes >= 60
        THEN [ intervals |-> <<60, 30, 10, 0>>, type_prefix |-> "minutes" ]
    ELSE [ intervals |-> <<10, 5, 2, 1, 0>>, type_prefix |-> "minutes" ]

\* extend_subscription: the bucket chosen from total_minutes =
\* total_seconds / 60 (a float in the code, compared here without dividing)
extend_intervals(total_seconds) ==
    IF total_seconds >= 1440 * 60
        THEN [ intervals |-> <<7, 3, 1, 0>>, type_prefix |-> "days" ]
    ELSE IF total_seconds >= 60 * 60
        THEN [ intervals |-> <<60, 30, 10, 0>>, type_prefix |-> "minutes" ]
    ELSE [ intervals |-> <<10, 5, 2, 1, 0>>, type_prefix |-> "minutes" ]

\* notif_date of one interval value
notif_date(end, val, type_prefix) ==
    IF type_prefix = "days" THEN end - timedelta(val, 0, 0, 0)
    ELSE end - timedelta(0, 0, val, 0)

\* the test that guards the INSERT of an interval entry
notif_date_kept(date, t) == date > t

\* (mutant) the planning pass without the 5_seconds entry
planned_rows_without_final(end, t, iv) ==
    LET all == [ i \in 1..Len(iv.intervals) |->
                    [ notification_type |->
                          notification_type(iv.intervals[i], iv.type_prefix),
                      notification_date |->
                          notif_date(end, iv.intervals[i], iv.type_prefix) ] ]
    IN  SelectSeq(all, LAMBDA r : notif_date_kept(r.notification_date, t))

\* the rows one planning pass inserts (the same statements in add_subscriber
\* and in extend_subscription): the 5_seconds entry first and without a
\* test, then one row per interval value whose notif_date passes the test
planned_rows(end, t, iv) ==
    LET all == [ i \in 1..Len(iv.intervals) |->
                    [ notification_type |->
                          notification_type(iv.intervals[i], iv.type_prefix),
                      notification_date |->
                          notif_date(end, iv.intervals[i], iv.type_prefix) ] ]
    IN  << [ notification_type |-> "5_seconds",
             notification_date |-> end - timedelta(0, 0, 0, 5) ] >>
        \o SelectSeq(all, LAMBDA r : notif_date_kept(r.notification_date, t))

\* (mutant) the grant deletes nothing
add_delete_none(table, user_id) == table

\* DELETE FROM notifications WHERE user_id = %s  (add_subscriber)
add_delete_old(table, user_id) == { n \in table : n.user_id # user_id }

\* (mutant) the extension deletes nothing
extend_delete_none(table, user_id) == table

\* (mutant) the extension deletes the sent entries and keeps the unsent
extend_delete_sent(table, user_id) ==
    { n \in table : ~(n.user_id = user_id /\ n.sent = TRUE) }

\* DELETE FROM notifications WHERE user_id = %s AND sent = FALSE
\* (extend_subscription)
extend_delete_unsent(table, user_id) ==
    { n \in table : ~(n.user_id = user_id /\ n.sent = FALSE) }

\* (mutant) ON CONFLICT (user_id) DO NOTHING
upsert_keep_existing(table, user_id, row) ==
    [ u \in DOMAIN table \cup {user_id} |-> IF u \in DOMAIN table THEN table[u] ELSE row ]

\* INSERT ... ON CONFLICT (user_id) DO UPDATE: one row per user_id
upsert_subscriber(table, user_id, row) ==
    [ u \in DOMAIN table \cup {user_id} |-> IF u = user_id THEN row ELSE table[u] ]

\* (mutant) an extension that finds no row still writes its audit entry
extend_missing_logged(ok) ==
    [ ok |-> ok, subscribers |-> subscribers, notifications |-> notifications,
      nextId |-> nextId,
      logs |-> Append(logs, [ action |-> "extend", user_id |-> 0 ]) ]

\* The result of a store operation: its return value and the tables as the
\* committed transaction leaves them.
Unchanged(ok) ==
    [ ok |-> ok, subscribers |-> subscribers, notifications |-> notifications,
      nextId |-> nextId, logs |-> logs ]

add_subscriber(user_id, days, hours, minutes) ==
    LET subscription_end == now + timedelta(days, hours, minutes, 0)
        row == [ subscription_start |-> now,
                 subscription_end |-> subscription_end,
                 status |-> "active" ]
        total_minutes == days * 1440 + hours * 60 + minutes
        planned == planned_rows(subscription_end, now, add_intervals(total_minutes))
    IN  [ ok |-> TRUE,
          subscribers |-> upsert_subscriber(subscribers, user_id, row),
          logs |-> Append(logs, [ action |-> "add", user_id |-> user_id ]),
          notifications |->
              insert_planned(add_delete_old(notifications, user_id),
                             nextId, user_id, planned),
          nextId |-> nextId + Len(planned) ]

\* add_subscriber when a statement raises: the tables as the transaction
\* sees them after its first `done` statements (the upsert, the audit
\* INSERT, the DELETE, then the notification INSERTs in program order)
add_subscriber_work(user_id, days, hours, minutes, done) ==
    LET full == add_subscriber(user_id, days, hours, minutes)
        subscription_end == now + timedelta(days, hours, minutes, 0)
        total_minutes == days * 1440 + hours * 60 + minutes
        planned == planned_rows(subscription_end, now, add_intervals(total_minutes))
        inserts == IF done > 3 THEN done - 3 ELSE 0
    IN  [ ok |-> FALSE,
          subscribers |-> IF done >= 1 THEN full.subscribers ELSE subscribers,
          logs |-> IF done >= 2 THEN full.logs ELSE logs,
          notifications |->
              IF done >= 3
                THEN insert_planned(add_delete_old(notifications, user_id),
                                    nextId, user_id, SubSeq(planned, 1, inserts))
                ELSE notifications,
          nextId |-> nextId + inserts ]

\* the statements of add_subscriber's transaction, conn.commit() not counted
add_subscriber_statements(days, hours, minutes) ==
    3 + Len(planned_rows(now + timedelta(days, hours, minutes, 0), now,
                         add_intervals(days * 1440 + hours * 60 + minutes)))

\* (mutant) every statement commits by itself
autocommit(work) == work

\* leaving `with conn` by an exception: the connection rolls back, the
\* tables are as before; values taken from the id sequence stay taken
rollback(work) ==
    [ ok |-> FALSE, subscribers |-> subscribers, notifications |-> notifications,
      nextId |-> work.nextId, logs |-> logs ]

\* (mutant) the extension counts from the clock, as a grant does
extend_new_end_from_now(current_end, days, hours, minutes) ==
    now + timedelta(days, hours, minutes, 0)

\* new_end = current_end + timedelta(days, hours, minutes)
extend_new_end(current_end, days, hours, minutes) ==
    current_end + timedelta(days, hours, minutes, 0)

\* (mutant) the total is counted from the clock, not from the start
extend_total_from_now(new_end, current_start) ==
    new_end - now

\* total_duration_delta = new_end - current_start, in seconds
extend_total(new_end, current_start) ==
    new_end - current_start

\* (mutant) the UPDATE leaves the status column alone
extend_status_kept(status) == status

\* UPDATE subscribers SET subscription_end = %s, status = 'active', ...
extend_status(status) == "active"

extend_subscription(user_id, days, hours, minutes) ==
    IF user_id \notin DOMAIN subscribers THEN Unchanged(FALSE)
    ELSE
    LET current_start == subscribers[user_id].subscription_start
        current_end == subscribers[user_id].subscription_end
        new_end == extend_new_end(current_end, days, hours, minutes)
        row == [ subscribers[user_id] EXCEPT !.subscription_end = new_end,
                                             !.status = extend_status(@) ]
        total_seconds == extend_total(new_end, current_start)
        planned == planned_rows(new_end, now, extend_intervals(total_seconds))
    IN  [ ok |-> TRUE,
          subscribers |-> [ subscribers EXCEPT ![user_id] = row ],
          logs |-> Append(logs, [ action |-> "extend", user_id |-> user_id ]),
          notifications |->
              insert_planned(extend_delete_unsent(notifications, user_id),
                             nextId, user_id, planned),
          nextId |-> nextId + Len(planned) ]

\* status = None, the default of get_all_subscribers
NoStatus == ""

\* the rows a listing reads: `if status:` WHERE status = %s, else all rows
listed_rows(status) ==
    { [ user_id |-> u, subscription_end |-> subscribers[u].subscription_end ] :
        u \in { v \in DOMAIN subscribers :
                  status = NoStatus \/ subscribers[v].status = status } }

\* (mutant) the query without ORDER BY
get_all_unordered(status) == Orders(listed_rows(status))

\* SELECT * FROM subscribers [WHERE status = %s] ORDER BY subscription_end:
\* every order of the matching rows that is ascending in subscription_end
get_all_subscribers(status) ==
    { o \in Orders(listed_rows(status)) :
        \A i \in 1..Len(o) - 1 : o[i].subscription_end <= o[i + 1].subscription_end }

\* UPDATE subscribers SET status = %s WHERE user_id = %s (no row: no change)
update_subscriber_status(user_id, status) ==
    IF user_id \in DOMAIN subscribers
        THEN [ subscribers EXCEPT ![user_id].status = status ]
        ELSE subscribers

\* (mutant) the status write also deletes the user's unsent entries
status_write_clears_unsent(table, user_id) ==
    { n \in table : n.user_id # user_id \/ n.sent }

\* update_subscriber_status issues the one UPDATE on subscribers: the
\* table notifications after it
status_write_ledger(table, user_id) == table

\* (mutant) the removal also deletes the user's log entries
remove_subscriber_and_logs(user_id) ==
    [ ok |-> TRUE,
      subscribers |-> [ u \in DOMAIN subscribers \ {user_id} |-> subscribers[u] ],
      notifications |-> { n \in notifications : n.user_id # user_id },
      nextId |-> nextId,
      logs |-> SelectSeq(logs, LAMBDA l : l.user_id # user_id) ]

\* (mutant) the removal deletes the subscriber row only
remove_subscriber_row_only(user_id) ==
    [ ok |-> TRUE,
      subscribers |-> [ u \in DOMAIN subscribers \ {user_id} |-> subscribers[u] ],
      notifications |-> notifications,
      nextId |-> nextId,
      logs |-> logs ]

\* DELETE FROM notifications ...; DELETE FROM subscribers ...
remove_subscriber(user_id) ==
    [ ok |-> TRUE,
      subscribers |-> [ u \in DOMAIN subscribers \ {user_id} |-> subscribers[u] ],
      notifications |-> { n \in notifications : n.user_id # user_id },
      nextId |-> nextId,
      logs |-> logs ]

\* UPDATE notifications SET sent = TRUE, sent_at = %s WHERE id = %s
mark_notification_sent(notification_id) ==
    { IF n.id = notification_id
        THEN [ n EXCEPT !.sent = TRUE, !.sent_at = now ]
        ELSE n : n \in notifications }

\* (mutant) an entry is due only after its time has passed
pending_filter_strict(n, t) == n.sent = FALSE /\ n.notification_date < t

\* (mutant) the sent flag is not tested
pending_filter_any(n, t) == n.notification_date <= t

\* WHERE n.sent = FALSE AND n.notification_date <= %s
pending_filter(n, t) == n.sent = FALSE /\ n.notification_date <= t

\* (mutant) the join keeps the entries of active subscribers only
get_pending_of_active ==
    { n \in notifications :
        /\ n.user_id \in DOMAIN subscribers
        /\ subscribers[n.user_id].status = "active"
        /\ pending_filter(n, now) }

\* SELECT n.* FROM notifications n JOIN subscribers s ON n.user_id = s.user_id
get_pending_notifications ==
    { n \in notifications : n.user_id \in DOMAIN subscribers /\ pending_filter(n, now) }

\* ------------------------------------------------------------- utils.py
\* ban_chat_member returned (success) or raised (not success)
kick_user_from_channel(user_id, success) ==
    IF success THEN banned \cup {user_id} ELSE banned

\* unban_chat_member(only_if_banned=True) returned (success) or raised
unban_user_from_channel(user_id, success) ==
    IF success THEN banned \ {user_id} ELSE banned

\* --------------------------------------------------------- config.py
\* Config.MESSAGES['notification']: the kinds with a template of their own.
\* The fallback branch of check_notifications indexes '0_days', so that key
\* is present; '0_minutes' is named there as a kind without a template.
DayKinds == { "7_days", "3_days", "1_days", "0_days" }
MinuteKinds == { "60_minutes", "30_minutes", "10_minutes", "5_minutes",
                 "2_minutes", "1_minutes" }
TemplateChoices == { DayKinds, DayKinds \cup MinuteKinds \cup { "5_seconds" } }

\* ------------------------------------------------------ process records
\* (todo, cur, outcome, success: the locals of the sweeps a force check runs)
AdmIdle == [ pc |-> "idle", user_id |-> 0, d |-> <<0, 0, 0>>, todo |-> <<>>,
             cur |-> <<>>, outcome |-> "none", success |-> FALSE ]
EsIdle == [ pc |-> "idle", user_id |-> 0, success |-> FALSE, todo |-> <<>> ]
NsIdle == [ pc |-> "idle", cur |-> <<>>, outcome |-> "none", todo |-> <<>> ]
\* last: the store operation the last step performed (op "add", "extend",
\* "remove": its arguments, the row it found, the rows it inserted) or the
\* fetch it performed (op "fetch": the ids get_pending_notifications returned)
\* (op "add" that raised: rolled, the statements it had executed);
\* failure: the Database methods in which the storage raised in that step;
\* (op "send_raised": the user whose kicked message the notifier refused;
\* op "join": the user who asked to join, the row the store holds, ok: the
\* handler chose approve; op "approve" / "decline": ok, the call returned;
\* op "list_all" / "list_expired": prev, the rows the listing returned)
NoOp == [ op |-> "none", user_id |-> 0, ok |-> FALSE, now |-> 0,
          d |-> <<0, 0, 0>>, prev |-> <<>>, inserted |-> {}, selected |-> {},
          rolled |-> 0, failure |-> {} ]
\* hist: threw, the entries whose latest send raised; curRun / prevRun, the entries the latest sweep and the one before
\* it delivered, kept while nothing but notification sweeps has run (quiet
\* since the latest sweep began, backToBack since the one before it began);
\* kickFailed, the users whose ban failed in the latest expiry sweep;
\* delivered, the entries handed to the notifier with success while the
\* force check in progress has been running, and again, those of them
\* handed over once more; restored, the user for whom the latest grant or
\* extend handler called unban_user_from_channel; nsTried / esTried, the
\* entries handed to the notifier and the users handed to the gateway's ban
\* in the periodic sweep run in progress, and retried, whether one of them
\* was handed over a second time within its run; escaped, the Database
\* methods that have let an exception of the storage out to their caller
NoHist == [ threw |-> {}, prevRun |-> {}, curRun |-> {}, quiet |-> FALSE,
            backToBack |-> FALSE, kickFailed |-> {}, delivered |-> {},
            again |-> {}, restored |-> {}, nsTried |-> {}, esTried |-> {},
            retried |-> FALSE, escaped |-> {} ]

\* the handler of the force check is in progress
InForce == adm.pc \in { "force", "force_kick", "force_notify", "force_send" }

\* a step that is not a step of the notification sweep
Disturb(h) == [ h EXCEPT !.quiet = FALSE, !.backToBack = FALSE,
                         !.prevRun = {}, !.curRun = {} ]

\* the row of user_id before an operation, if there is one
Prev(user_id) ==
    IF user_id \in DOMAIN subscribers THEN << subscribers[user_id] >> ELSE <<>>

\* main() has started the scheduler and polls for updates: it found a
\* token and a channel id, and created the database, the handlers and the
\* scheduler
MainRunning == [ pc |-> "running", BOT_TOKEN |-> TRUE, CHANNEL_ID |-> TRUE,
                 created |-> { "db", "application", "handlers", "scheduler" } ]

Init ==
    /\ main = MainRunning
    /\ now = 0
    /\ subscribers = <<>>
    /\ notifications = {}
    /\ nextId = 1
    /\ logs = <<>>
    /\ banned = {}
    /\ templates \in TemplateChoices
    /\ adm = AdmIdle
    /\ es = EsIdle
    /\ ns = NsIdle
    /\ ops = 0
    /\ last = NoOp
    /\ hist = NoHist

\* the clock advances
Tick(steps, max) ==
    /\ now < max
    /\ \E s \in steps : now' = now + s
    /\ last' = NoOp
    /\ hist' = Disturb(hist)
    /\ UNCHANGED << db, banned, templates, main, adm, es, ns, ops >>

\* ------------------------------------- database.py: storage failures
\* (mutant) the except branch raises again
reraised(method) == { method }

\* `except Exception as e: logger.error(...); return False / None / []`,
\* the branch that closes the one try block of every Database method: the
\* methods whose exception reaches the caller
raised_to_caller(method) == {}

\* what the history records of a storage failure inside method
Failure(h, methods) ==
    [ h EXCEPT !.escaped = @ \cup UNION { raised_to_caller(m) : m \in methods } ]

\* ---------------------------------------------------------- handlers.py
\* (mutant) the handler goes to the store without the restore call
restore_skipped(user_id) == {}

\* `await unban_user_from_channel(self.bot, target_id, ...)`, the statement
\* before the store call in the grant and extend handlers: the users the
\* gateway is asked to restore
restore_invoked(user_id) == { user_id }

\* get_subscription_days / _hours / _minutes up to their first await:
\* int(text), then await unban_user_from_channel
get_subscription_await(user_id, d) ==
    /\ adm.pc = "idle"
    /\ \E success \in BOOLEAN :
          banned' = IF user_id \in restore_invoked(user_id)
                      THEN unban_user_from_channel(user_id, success)
                      ELSE banned
    /\ adm' = [ AdmIdle EXCEPT !.pc = "add", !.user_id = user_id, !.d = d ]
    /\ ops' = ops + 1
    /\ last' = NoOp
    /\ hist' = [ Disturb(hist) EXCEPT !.restored = restore_invoked(user_id) ]
    /\ UNCHANGED << now, db, templates, main, es, ns >>

\* ... and after await create_invite_link: db.add_subscriber(...)
get_subscription_resume ==
    /\ adm.pc = "add"
    /\ LET r == add_subscriber(adm.user_id, adm.d[1], adm.d[2], adm.d[3])
       IN  /\ subscribers' = r.subscribers
           /\ notifications' = r.notifications
           /\ nextId' = r.nextId
           /\ logs' = r.logs
           /\ last' = [ op |-> "add", user_id |-> adm.user_id, ok |-> r.ok,
                        now |-> now, d |-> adm.d, prev |-> Prev(adm.user_id),
                        inserted |-> r.notifications \ notifications,
                        selected |-> {}, rolled |-> 0, failure |-> {} ]
    /\ adm' = AdmIdle
    /\ hist' = Disturb(hist)
    /\ UNCHANGED << now, banned, templates, main, es, ns, ops >>

\* ... the same when add_subscriber returns False: the connection, one of
\* the statements or conn.commit() raised after `done` statements
get_subscription_failed ==
    /\ adm.pc = "add"
    /\ \E done \in 0..add_subscriber_statements(adm.d[1], adm.d[2], adm.d[3]) :
         LET r == rollback(add_subscriber_work(adm.user_id, adm.d[1],
                                               adm.d[2], adm.d[3], done))
         IN  /\ subscribers' = r.subscribers
             /\ notifications' = r.notifications
             /\ nextId' = r.nextId
             /\ logs' = r.logs
             /\ last' = [ NoOp EXCEPT !.op = "add", !.user_id = adm.user_id,
                                      !.ok = r.ok, !.now = now, !.d = adm.d,
                                      !.prev = Prev(adm.user_id),
                                      !.rolled = done,
                                      !.failure = { "add_subscriber" } ]
    /\ adm' = AdmIdle
    /\ hist' = Failure(Disturb(hist), { "add_subscriber" })
    /\ UNCHANGED << now, banned, templates, main, es, ns, ops >>

\* get_edit_days / _hours / _minutes up to their await:
\* int(text), then await unban_user_from_channel
get_edit_await(user_id, d) ==
    /\ adm.pc = "idle"
    /\ \E success \in BOOLEAN :
          banned' = IF user_id \in restore_invoked(user_id)
                      THEN unban_user_from_channel(user_id, success)
                      ELSE banned
    /\ adm' = [ AdmIdle EXCEPT !.pc = "extend", !.user_id = user_id, !.d = d ]
    /\ ops' = ops + 1
    /\ last' = NoOp
    /\ hist' = [ Disturb(hist) EXCEPT !.restored = restore_invoked(user_id) ]
    /\ UNCHANGED << now, db, templates, main, es, ns >>

\* ... and after it: db.extend_subscription(...)
get_edit_resume ==
    /\ adm.pc = "extend"
    /\ LET r == extend_subscription(adm.user_id, adm.d[1], adm.d[2], adm.d[3])
       IN  /\ subscribers' = r.subscribers
           /\ notifications' = r.notifications
           /\ nextId' = r.nextId
           /\ logs' = r.logs
           /\ last' = [ op |-> "extend", user_id |-> adm.user_id, ok |-> r.ok,
                        now |-> now, d |-> adm.d, prev |-> Prev(adm.user_id),
                        inserted |-> r.notifications \ notifications,
                        selected |-> {}, rolled |-> 0, failure |-> {} ]
    /\ adm' = AdmIdle
    /\ hist' = Disturb(hist)
    /\ UNCHANGED << now, banned, templates, main, es, ns, ops >>

\* (mutant) the ban does not depend on what remove_subscriber returned
remove_revokes_always(ok) == TRUE

\* `if self.db.remove_subscriber(user_id):`, the test that guards
\* await kick_user_from_channel in edit_action_callback
remove_revokes(ok) == ok

\* edit_action_callback, data 'edit_remove...': db.remove_subscriber, then
\* await kick_user_from_channel if it returned True
edit_remove(user_id) ==
    /\ adm.pc = "idle"
    /\ LET r == remove_subscriber(user_id)
       IN  /\ subscribers' = r.subscribers
           /\ notifications' = r.notifications
           /\ nextId' = r.nextId
           /\ logs' = r.logs
           /\ last' = [ op |-> "remove", user_id |-> user_id, ok |-> r.ok,
                        now |-> now, d |-> <<0, 0, 0>>, prev |-> Prev(user_id),
                        inserted |-> {}, selected |-> {}, rolled |-> 0, failure |-> {} ]
           /\ IF remove_revokes(r.ok)
                 THEN \E success \in BOOLEAN :
                        banned' = kick_user_from_channel(user_id, success)
                 ELSE banned' = banned
    /\ ops' = ops + 1
    /\ hist' = Disturb(hist)
    /\ UNCHANGED << now, templates, main, adm, es, ns >>

\* --------------------------------------------------------- scheduler.py
\* (mutant) a subscription has ended only after its validUntil has passed
expired_rows_strict(active_subscribers, t) ==
    SelectSeq(active_subscribers, LAMBDA r : r.subscription_end < t)

\* check_expired_subscriptions: `if subscription_end <= now`, on the rows
\* and the clock value fetched when the sweep began
expired_rows(active_subscribers, t) ==
    SelectSeq(active_subscribers, LAMBDA r : r.subscription_end <= t)

\* (mutant) the status is written whatever the ban returned
kick_result_ignored(success) == TRUE

\* `if success:` after await kick_user_from_channel
kick_succeeded(success) == success

\* The loop of check_expired_subscriptions from the top of an iteration to
\* its next await: the ban request for the next expired row is dispatched
\* and the gateway answers, or the row set is exhausted and the sweep ends.
es_dispatch(todo, h) ==
    IF todo = <<>>
        THEN /\ es' = EsIdle
             /\ banned' = banned
             /\ hist' = [ h EXCEPT !.esTried = {} ]
        ELSE \E success \in BOOLEAN :
             /\ banned' = kick_user_from_channel(todo[1].user_id, success)
             /\ es' = [ pc |-> "kick", user_id |-> todo[1].user_id,
                        success |-> success, todo |-> Tail(todo) ]
             /\ hist' = [ h EXCEPT !.kickFailed =
                            IF success THEN @ ELSE @ \cup { todo[1].user_id },
                                   !.esTried = @ \cup { todo[1].user_id },
                                   !.retried = @ \/ todo[1].user_id \in h.esTried ]

\* check_expired_subscriptions, from its start to its first await
check_expired_subscriptions ==
    /\ es.pc = "idle"
    /\ \E active_subscribers \in get_all_subscribers("active") :
          es_dispatch(expired_rows(active_subscribers, now),
                      [ Disturb(hist) EXCEPT !.kickFailed = {} ])
    /\ last' = NoOp
    /\ UNCHANGED << now, db, templates, main, adm, ns, ops >>

\* ... resumed after await kick_user_from_channel: on success the status
\* is written and the kicked message is sent (await bot.send_message)
check_expired_kicked ==
    /\ es.pc = "kick"
    /\ IF kick_succeeded(es.success)
         THEN /\ subscribers' = update_subscriber_status(es.user_id, "expired")
              /\ notifications' = status_write_ledger(notifications, es.user_id)
              /\ es' = [ es EXCEPT !.pc = "notify" ]
              /\ banned' = banned
              /\ hist' = Disturb(hist)
         ELSE /\ subscribers' = subscribers
              /\ notifications' = notifications
              /\ es_dispatch(es.todo, Disturb(hist))
    /\ last' = NoOp
    /\ UNCHANGED << now, nextId, logs, templates, main, adm, ns, ops >>

\* ... resumed after await bot.send_message (returned or raised)
check_expired_notified ==
    /\ es.pc = "notify"
    /\ es_dispatch(es.todo, Disturb(hist))
    /\ last' = NoOp
    /\ UNCHANGED << now, db, templates, main, adm, ns, ops >>

\* check_notifications: the entry has a subscriber row and a message
has_message(n) ==
    /\ n.user_id \in DOMAIN subscribers
    /\ \/ n.notification_type \in templates
       \/ n.notification_type = "0_days"
       \/ n.notification_type = "0_minutes"

\* (mutant) the else branch leaves the loop
skip_break(todo) ==
    IF todo = <<>> \/ has_message(todo[1]) THEN todo ELSE <<>>

RECURSIVE skip_continue(_)
\* the iterations that end in `continue`
skip_continue(todo) ==
    IF todo = <<>> \/ has_message(todo[1]) THEN todo ELSE skip_continue(Tail(todo))

\* what the history records of one send
Sent(h, id, outcome) ==
    IF outcome = "ok"
        THEN [ h EXCEPT !.curRun = IF h.quiet THEN @ \cup {id} ELSE @,
                        !.threw = @ \ {id},
                        !.delivered = IF InForce THEN @ \cup {id} ELSE @,
                        !.again = IF InForce /\ id \in h.delivered
                                    THEN @ \cup {id} ELSE @ ]
        ELSE [ h EXCEPT !.threw = @ \cup {id} ]

\* The loop of check_notifications from the top of an iteration to its next
\* await: entries without row or message are skipped, the next message is
\* handed to the notifier (which returns or raises), or the sweep ends.
ns_dispatch(todo, h) ==
    LET rest == skip_continue(todo)
    IN  IF rest = <<>>
            THEN /\ ns' = NsIdle
                 /\ hist' = [ h EXCEPT !.nsTried = {} ]
            ELSE \E outcome \in { "ok", "raise" } :
                 /\ ns' = [ pc |-> "send", cur |-> << rest[1] >>,
                            outcome |-> outcome, todo |-> Tail(rest) ]
                 /\ hist' = [ Sent(h, rest[1].id, outcome) EXCEPT
                                !.nsTried = @ \cup { rest[1].id },
                                !.retried = @ \/ rest[1].id \in h.nsTried ]

\* check_notifications, from its start to its first await
check_notifications ==
    /\ ns.pc = "idle"
    /\ \E pending_notifications \in Orders(get_pending_notifications) :
          /\ ns_dispatch(pending_notifications,
                      [ hist EXCEPT !.prevRun = hist.curRun,
                                    !.curRun = {},
                                    !.backToBack = hist.quiet,
                                    !.quiet = TRUE ])
          /\ last' = [ NoOp EXCEPT !.op = "fetch", !.now = now, !.selected =
                         { pending_notifications[i].id :
                             i \in 1..Len(pending_notifications) } ]
    /\ UNCHANGED << now, db, banned, templates, main, adm, es, ops >>

\* (mutant) an entry whose send raised is tried again at once
ns_retry_on_raise(cur, outcome, todo) ==
    IF outcome = "raise" THEN cur \o todo ELSE todo

\* the entries the `for` loop still has to visit after one iteration: the
\* except branch only logs, the loop moves on whatever the outcome
ns_remaining(cur, outcome, todo) == todo

\* (mutant) the entry is marked in a finally branch
send_attempted(outcome) == TRUE

\* the send returned without raising
send_returned(outcome) == outcome = "ok"

\* ... resumed after await bot.send_message: mark_notification_sent if it
\* returned, the except branch if it raised
check_notifications_resume ==
    /\ ns.pc = "send"
    /\ notifications' = IF send_returned(ns.outcome)
                            THEN mark_notification_sent(ns.cur[1].id)
                            ELSE notifications
    /\ ns_dispatch(ns_remaining(ns.cur, ns.outcome, ns.todo), hist)
    /\ last' = NoOp
    /\ UNCHANGED << now, subscribers, nextId, logs, banned, templates, main, adm, es, ops >>

\* ------------------------------------------- handlers.py: force check
\* handle_callback_general, data 'force_check': up to `await query.answer()`
force_check ==
    /\ adm.pc = "idle"
    /\ adm' = [ AdmIdle EXCEPT !.pc = "force" ]
    /\ ops' = ops + 1
    /\ last' = NoOp
    /\ hist' = Disturb(hist)
    /\ UNCHANGED << now, db, banned, templates, main, es, ns >>

\* The loop of s.check_notifications() inside the handler, from the top of
\* an iteration to its next await; when the entries are exhausted the
\* handler replies and ends.
force_ns_dispatch(todo, h) ==
    LET rest == skip_continue(todo)
    IN  IF rest = <<>>
            THEN /\ adm' = AdmIdle
                 /\ hist' = [ h EXCEPT !.delivered = {}, !.again = {} ]
            ELSE \E outcome \in { "ok", "raise" } :
                 /\ adm' = [ AdmIdle EXCEPT !.pc = "force_send",
                                            !.cur = << rest[1] >>,
                                            !.outcome = outcome,
                                            !.todo = Tail(rest) ]
                 /\ hist' = Sent(h, rest[1].id, outcome)

\* The loop of s.check_expired_subscriptions() inside the handler, from the
\* top of an iteration to its next await; when the rows are exhausted
\* s.check_notifications() begins in the same step with its fetch.
force_es_dispatch(todo, h) ==
    IF todo = <<>>
        THEN /\ banned' = banned
             /\ \E pending_notifications \in Orders(get_pending_notifications) :
                    force_ns_dispatch(pending_notifications, h)
        ELSE \E success \in BOOLEAN :
             /\ banned' = kick_user_from_channel(todo[1].user_id, success)
             /\ adm' = [ AdmIdle EXCEPT !.pc = "force_kick",
                                        !.user_id = todo[1].user_id,
                                        !.success = success,
                                        !.todo = Tail(todo) ]
             /\ hist' = h

\* ... resumed after query.answer(): await s.check_expired_subscriptions()
force_check_answered ==
    /\ adm.pc = "force"
    /\ \E active_subscribers \in get_all_subscribers("active") :
          force_es_dispatch(expired_rows(active_subscribers, now), Disturb(hist))
    /\ last' = NoOp
    /\ UNCHANGED << now, db, templates, main, es, ns, ops >>

\* ... resumed after await kick_user_from_channel
force_check_kicked ==
    /\ adm.pc = "force_kick"
    /\ IF kick_succeeded(adm.success)
         THEN /\ subscribers' = update_subscriber_status(adm.user_id, "expired")
              /\ adm' = [ adm EXCEPT !.pc = "force_notify" ]
              /\ banned' = banned
              /\ hist' = Disturb(hist)
         ELSE /\ subscribers' = subscribers
              /\ force_es_dispatch(adm.todo, Disturb(hist))
    /\ last' = NoOp
    /\ UNCHANGED << now, notifications, nextId, logs, templates, main, es, ns, ops >>

\* ... resumed after await bot.send_message of the kicked message
force_check_notified ==
    /\ adm.pc = "force_notify"
    /\ force_es_dispatch(adm.todo, Disturb(hist))
    /\ last' = NoOp
    /\ UNCHANGED << now, db, templates, main, es, ns, ops >>

\* ... resumed after await bot.send_message of a notification
force_check_sent ==
    /\ adm.pc = "force_send"
    /\ notifications' = IF send_returned(adm.outcome)
                            THEN mark_notification_sent(adm.cur[1].id)
                            ELSE notifications
    /\ force_ns_dispatch(adm.todo, Disturb(hist))
    /\ last' = NoOp
    /\ UNCHANGED << now, subscribers, nextId, logs, banned, templates, main, es, ns, ops >>

\* ------------------------------------------------------- specifications
\* The whole bot: the two periodic sweeps, the admin handlers and the clock.
Next ==
    \/ Tick(SweepSteps, MaxTime)
    \/ \E u \in SweepUsers, d \in SweepDurations :
          ops < MaxOps /\ get_subscription_await(u, d)
    \/ get_subscription_resume
    \/ \E u \in SweepUsers, d \in SweepDurations :
          ops < MaxOps /\ get_edit_await(u, d)
    \/ get_edit_resume
    \/ \E u \in SweepUsers : ops < MaxOps /\ edit_remove(u)
    \/ check_expired_subscriptions
    \/ check_expired_kicked
    \/ check_expired_notified
    \/ check_notifications
    \/ check_notifications_resume

Spec == Init /\ [][Next]_vars

\* The store alone: grants (committed or rolled back), extensions and
\* removals over the durations of StoreDurations, no sweep running.
NextStore ==
    \/ Tick(StoreSteps, MaxStoreTime)
    \/ \E u \in Users, d \in StoreDurations :
          ops < MaxStoreOps /\ get_subscription_await(u, d)
    \/ get_subscription_resume
    \/ get_subscription_failed
    \/ \E u \in Users, d \in StoreDurations :
          ops < MaxStoreOps /\ get_edit_await(u, d)
    \/ get_edit_resume
    \/ \E u \in Users : ops < MaxStoreOps /\ edit_remove(u)

InitStore == Init /\ templates = DayKinds

SpecStore == InitStore /\ [][NextStore]_vars

\* The force check beside the periodic sweeps: grants, the two periodic
\* sweeps, and the admin's force check, which runs both procedures inside
\* its handler.
NextForce ==
    \/ Tick(SweepSteps, MaxTime)
    \/ \E u \in SweepUsers, d \in SweepDurations :
          ops < MaxForceOps /\ get_subscription_await(u, d)
    \/ get_subscription_resume
    \/ check_expired_subscriptions
    \/ check_expired_kicked
    \/ check_expired_notified
    \/ check_notifications
    \/ check_notifications_resume
    \/ ops < MaxForceOps /\ force_check
    \/ force_check_answered
    \/ force_check_kicked
    \/ force_check_notified
    \/ force_check_sent

SpecForce == Init /\ [][NextForce]_vars

\* ---------------------------- scheduler.py: the kicked message raises
\* (mutant) the run ends when the kicked message cannot be delivered
es_stop_on_raise(todo) == <<>>

\* the rows the `for` loop of check_expired_subscriptions still has to
\* visit after the except branch of an iteration
es_remaining(todo) == todo

\* check_expired_subscriptions resumed after await bot.send_message of the
\* kicked message, when it raised: the except branch logs
check_expired_notify_raised ==
    /\ es.pc = "notify"
    /\ es_dispatch(es_remaining(es.todo), Disturb(hist))
    /\ last' = [ NoOp EXCEPT !.op = "send_raised", !.user_id = es.user_id ]
    /\ UNCHANGED << now, db, templates, main, adm, ns, ops >>

\* The expiry sweep over two subscribers: grants to either, the sweep, and
\* the kicked message returning or raising.
NextExpiryPair ==
    \/ Tick(SweepSteps, MaxPairTime)
    \/ \E u \in Users, d \in SweepDurations :
          ops < MaxPairOps /\ get_subscription_await(u, d)
    \/ get_subscription_resume
    \/ check_expired_subscriptions
    \/ check_expired_kicked
    \/ check_expired_notified
    \/ check_expired_notify_raised

SpecExpiryPair == Init /\ [][NextExpiryPair]_vars

\* ----------------------------------------- handlers.py: the listings
\* list_users_flow after `await query.answer()`: status_filter is
\* 'expired' for the data 'list_expired_flow' and None otherwise; the rows
\* of get_all_subscribers become the buttons of the reply, in their order
list_users_flow(status_filter) ==
    /\ adm.pc = "idle"
    /\ \E listing \in get_all_subscribers(status_filter) :
          last' = [ NoOp EXCEPT !.op = IF status_filter = NoStatus
                                         THEN "list_all" ELSE "list_expired",
                                !.now = now, !.prev = listing ]
    /\ hist' = Disturb(hist)
    /\ UNCHANGED << now, db, banned, templates, main, adm, es, ns, ops >>

\* The listings beside grants to two users and the expiry sweep.
NextList ==
    \/ Tick(SweepSteps, MaxListTime)
    \/ \E u \in Users, d \in SweepDurations :
          ops < MaxListOps /\ get_subscription_await(u, d)
    \/ get_subscription_resume
    \/ check_expired_subscriptions
    \/ check_expired_kicked
    \/ check_expired_notified
    \/ \E status_filter \in { NoStatus, "expired" } : list_users_flow(status_filter)

SpecList == Init /\ [][NextList]_vars

\* ------------------------------------- handlers.py: join requests
\* get_subscriber: the row of user_id as a sequence of length 1, or None
\* (the empty sequence) when there is no row or the storage raised
get_subscriber(user_id, failed) ==
    IF failed THEN <<>> ELSE Prev(user_id)

\* `if sub and sub['status'] == 'active':` ... `if expiry > now:`
join_approves(sub, t) ==
    /\ sub # <<>>
    /\ sub[1].status = "active"
    /\ sub[1].subscription_end > t

\* chat_join_request_handler up to its first await: the lookup, the clock,
\* the two tests, then `await request.approve()` or `await request.decline()`
chat_join_request_handler(user_id) ==
    /\ adm.pc = "idle"
    /\ \E failed \in BOOLEAN :
         LET sub == get_subscriber(user_id, failed)
             lost == IF failed THEN { "get_subscriber" } ELSE {}
         IN  /\ adm' = [ AdmIdle EXCEPT
                           !.pc = IF join_approves(sub, now)
                                    THEN "approve" ELSE "decline",
                           !.user_id = user_id ]
             /\ last' = [ NoOp EXCEPT !.op = "join", !.user_id = user_id,
                                      !.now = now, !.prev = Prev(user_id),
                                      !.ok = join_approves(sub, now),
                                      !.failure = lost ]
             /\ hist' = Failure(Disturb(hist), lost)
    /\ ops' = ops + 1
    /\ UNCHANGED << now, db, banned, templates, main, es, ns >>

\* ... resumed after await request.approve(), which returned or raised:
\* the handler ends
chat_join_request_approved ==
    /\ adm.pc = "approve"
    /\ \E returned \in BOOLEAN :
          last' = [ NoOp EXCEPT !.op = "approve", !.user_id = adm.user_id,
                                !.ok = returned ]
    /\ adm' = AdmIdle
    /\ hist' = Disturb(hist)
    /\ UNCHANGED << now, db, banned, templates, main, es, ns, ops >>

\* ... resumed after await request.decline(): when it returned,
\* await kick_user_from_channel and the message to the user (its failure
\* is passed over); when it raised, the exception leaves the handler
chat_join_request_declined ==
    /\ adm.pc = "decline"
    /\ \E returned \in BOOLEAN :
          /\ IF returned
                THEN \E success \in BOOLEAN :
                       banned' = kick_user_from_channel(adm.user_id, success)
                ELSE banned' = banned
          /\ last' = [ NoOp EXCEPT !.op = "decline", !.user_id = adm.user_id,
                                   !.ok = returned ]
    /\ adm' = AdmIdle
    /\ hist' = Disturb(hist)
    /\ UNCHANGED << now, db, templates, main, es, ns, ops >>

\* Join requests beside grants and the expiry sweep.
NextJoin ==
    \/ Tick(SweepSteps, MaxJoinTime)
    \/ \E u \in SweepUsers, d \in SweepDurations :
          ops < MaxJoinOps /\ get_subscription_await(u, d)
    \/ get_subscription_resume
    \/ check_expired_subscriptions
    \/ check_expired_kicked
    \/ check_expired_notified
    \/ \E u \in SweepUsers : ops < MaxJoinOps /\ chat_join_request_handler(u)
    \/ chat_join_request_approved
    \/ chat_join_request_declined

SpecJoin == Init /\ [][NextJoin]_vars

\* ------------------------- handlers and sweeps on a storage failure
\* get_edit_days / _hours / _minutes when extend_subscription returns False
\* because the connection, a statement or conn.commit() raised: the
\* transaction is rolled back, the ids its INSERTs drew stay drawn
get_edit_failed ==
    /\ adm.pc = "extend"
    /\ LET r == extend_subscription(adm.user_id, adm.d[1], adm.d[2], adm.d[3])
       IN  \E drawn \in 0..(r.nextId - nextId) : nextId' = nextId + drawn
    /\ last' = [ NoOp EXCEPT !.op = "extend", !.user_id = adm.user_id,
                             !.now = now, !.d = adm.d,
                             !.prev = Prev(adm.user_id),
                             !.failure = { "extend_subscription" } ]
    /\ adm' = AdmIdle
    /\ hist' = Failure(Disturb(hist), { "extend_subscription" })
    /\ UNCHANGED << now, subscribers, notifications, logs, banned, templates, main,
                    es, ns, ops >>

\* edit_action_callback, data 'edit_remove...', when remove_subscriber
\* returns False because the storage raised: the else branch, no ban
edit_remove_failed(user_id) ==
    /\ adm.pc = "idle"
    /\ last' = [ NoOp EXCEPT !.op = "remove", !.user_id = user_id,
                             !.now = now, !.prev = Prev(user_id),
                             !.failure = { "remove_subscriber" } ]
    /\ IF remove_revokes(FALSE)
          THEN \E success \in BOOLEAN :
                 banned' = kick_user_from_channel(user_id, success)
          ELSE banned' = banned
    /\ ops' = ops + 1
    /\ hist' = Failure(Disturb(hist), { "remove_subscriber" })
    /\ UNCHANGED << now, db, templates, main, adm, es, ns >>

\* check_expired_subscriptions when get_all_subscribers returns [] because
\* the storage raised: the loop has nothing to visit
check_expired_failed ==
    /\ es.pc = "idle"
    /\ es_dispatch(<<>>, Failure([ Disturb(hist) EXCEPT !.kickFailed = {} ],
                                 { "get_all_subscribers" }))
    /\ last' = [ NoOp EXCEPT !.failure = { "get_all_subscribers" } ]
    /\ UNCHANGED << now, db, templates, main, adm, ns, ops >>

\* ... resumed after a ban that succeeded, when update_subscriber_status
\* returns False because the storage raised: the return value is not
\* read, the kicked message is sent
check_expired_kicked_failed ==
    /\ es.pc = "kick"
    /\ kick_succeeded(es.success)
    /\ es' = [ es EXCEPT !.pc = "notify" ]
    /\ hist' = Failure(Disturb(hist), { "update_subscriber_status" })
    /\ last' = [ NoOp EXCEPT !.failure = { "update_subscriber_status" } ]
    /\ UNCHANGED << now, db, banned, templates, main, adm, ns, ops >>

\* the ids of a list of entries
Ids(todo) == { todo[i].id : i \in 1..Len(todo) }

\* `subscriber = self.db.get_subscriber(user_id); if not subscriber:
\* continue`: the entries left when get_subscriber returns None, because
\* the storage raised, for the entries of lost
lookup_kept(todo, lost) == SelectSeq(todo, LAMBDA n : n.id \notin lost)

\* check_notifications when get_pending_notifications returns [] because
\* the storage raised: the loop has nothing to visit
check_notifications_failed ==
    /\ ns.pc = "idle"
    /\ ns_dispatch(<<>>, Failure([ hist EXCEPT !.prevRun = hist.curRun,
                                               !.curRun = {},
                                               !.backToBack = hist.quiet,
                                               !.quiet = TRUE ],
                                 { "get_pending_notifications" }))
    /\ last' = [ NoOp EXCEPT !.op = "fetch", !.now = now,
                             !.failure = { "get_pending_notifications" } ]
    /\ UNCHANGED << now, db, banned, templates, main, adm, es, ops >>

\* check_notifications, from its start to its first await, when
\* get_subscriber fails for some of the entries fetched
check_notifications_lookup_failed ==
    /\ ns.pc = "idle"
    /\ \E pending_notifications \in Orders(get_pending_notifications) :
       \E lost \in SUBSET Ids(pending_notifications) \ { {} } :
          /\ ns_dispatch(lookup_kept(pending_notifications, lost),
                         Failure([ hist EXCEPT !.prevRun = hist.curRun,
                                               !.curRun = {},
                                               !.backToBack = hist.quiet,
                                               !.quiet = TRUE ],
                                 { "get_subscriber" }))
          /\ last' = [ NoOp EXCEPT !.op = "fetch", !.now = now,
                                   !.selected = Ids(pending_notifications),
                                   !.failure = { "get_subscriber" } ]
    /\ UNCHANGED << now, db, banned, templates, main, adm, es, ops >>

\* ... resumed after await bot.send_message, when mark_notification_sent
\* (after a send that returned) or get_subscriber (for entries still to
\* visit) fails: the one returns None after its except branch and the
\* entry stays unsent, the other returns None and the entry is skipped
check_notifications_resume_failed ==
    /\ ns.pc = "send"
    /\ \E failed \in SUBSET { "mark_notification_sent", "get_subscriber" } \ { {} } :
       \E lost \in SUBSET Ids(ns.todo) :
          /\ "mark_notification_sent" \in failed => send_returned(ns.outcome)
          /\ "get_subscriber" \in failed <=> lost # {}
          /\ notifications' =
                IF send_returned(ns.outcome) /\ "mark_notification_sent" \notin failed
                    THEN mark_notification_sent(ns.cur[1].id)
                    ELSE notifications
          /\ ns_dispatch(lookup_kept(ns_remaining(ns.cur, ns.outcome, ns.todo),
                                     lost),
                         Failure(hist, failed))
          /\ last' = [ NoOp EXCEPT !.failure = failed ]
    /\ UNCHANGED << now, subscribers, nextId, logs, banned, templates, main, adm, es, ops >>

\* The removal beside grants: remove_subscriber goes through or meets a
\* failure of the storage.
NextRemove ==
    \/ Tick(SweepSteps, MaxRemoveTime)
    \/ \E u \in Users, d \in SweepDurations :
          ops < MaxRemoveOps /\ get_subscription_await(u, d)
    \/ get_subscription_resume
    \/ \E u \in Users : ops < MaxRemoveOps /\ edit_remove(u)
    \/ \E u \in Users : ops < MaxRemoveOps /\ edit_remove_failed(u)

SpecRemove == Init /\ [][NextRemove]_vars

\* Grants, extensions, removals and the two periodic sweeps, where every
\* call of a Database method either goes through or meets a failure of
\* the storage (connection refused, statement or commit raising).
NextFault ==
    \/ Tick(SweepSteps, MaxFaultTime)
    \/ \E u \in SweepUsers, d \in SweepDurations :
          ops < MaxFaultOps /\ get_subscription_await(u, d)
    \/ get_subscription_resume
    \/ get_subscription_failed
    \/ \E u \in SweepUsers, d \in SweepDurations :
          ops < MaxFaultOps /\ get_edit_await(u, d)
    \/ get_edit_resume
    \/ get_edit_failed
    \/ \E u \in SweepUsers : ops < MaxFaultOps /\ edit_remove(u)
    \/ \E u \in SweepUsers : ops < MaxFaultOps /\ edit_remove_failed(u)
    \/ check_expired_subscriptions
    \/ check_expired_failed
    \/ check_expired_kicked
    \/ check_expired_kicked_failed
    \/ check_expired_notified
    \/ check_notifications
    \/ check_notifications_failed
    \/ check_notifications_lookup_failed
    \/ check_notifications_resume
    \/ check_notifications_resume_failed

SpecFault == Init /\ [][NextFault]_vars

\* ---------------------------------------------------------------- main.py
\* (mutant) main checks the token only
token_missing(BOT_TOKEN, CHANNEL_ID) == ~BOT_TOKEN

\* `if not Config.BOT_TOKEN: ... return` and `if not Config.CHANNEL_ID: ...
\* return`, the first statements of main (a missing ADMIN_IDS is a warning)
config_missing(BOT_TOKEN, CHANNEL_ID) == ~BOT_TOKEN \/ ~CHANNEL_ID

\* main from its first statement to `await scheduler.start()`: the two
\* checks, Database(...) (which raises without DATABASE_URL or when the
\* tables cannot be created), the application, the handlers, the scheduler
main_start ==
    /\ main.pc = "start"
    /\ \E db_ready, application_ready \in BOOLEAN :
          main' = IF config_missing(main.BOT_TOKEN, main.CHANNEL_ID) \/ ~db_ready
                     THEN [ main EXCEPT !.pc = "returned" ]
                  ELSE IF ~application_ready
                     THEN [ main EXCEPT !.pc = "returned", !.created = { "db" } ]
                  ELSE [ main EXCEPT !.pc = "running",
                                     !.created = MainRunning.created ]
    /\ UNCHANGED << now, db, banned, templates, adm, es, ns, ops, last, hist >>

\* the process before main runs, with the configuration the environment
\* gives: a token or not, a channel id or not
InitMain ==
    /\ main \in [ pc : { "start" }, BOT_TOKEN : BOOLEAN, CHANNEL_ID : BOOLEAN,
                  created : { {} } ]
    /\ now = 0
    /\ subscribers = <<>>
    /\ notifications = {}
    /\ nextId = 1
    /\ logs = <<>>
    /\ banned = {}
    /\ templates \in TemplateChoices
    /\ adm = AdmIdle
    /\ es = EsIdle
    /\ ns = NsIdle
    /\ ops = 0
    /\ last = NoOp
    /\ hist = NoHist

\* the handlers registered and the jobs scheduled by main work once main
\* has reached its polling loop
Running == main.pc = "running"

\* The process from its start: main, then the grant, extend and remove
\* handlers and the two periodic sweeps.
NextMain ==
    \/ main_start
    \/ Running /\ Tick(SweepSteps, MaxMainTime)
    \/ \E u \in SweepUsers, d \in SweepDurations :
          Running /\ ops < MaxMainOps /\ get_subscription_await(u, d)
    \/ Running /\ get_subscription_resume
    \/ \E u \in SweepUsers, d \in SweepDurations :
          Running /\ ops < MaxMainOps /\ get_edit_await(u, d)
    \/ Running /\ get_edit_resume
    \/ \E u \in SweepUsers : Running /\ ops < MaxMainOps /\ edit_remove(u)
    \/ Running /\ check_expired_subscriptions
    \/ Running /\ check_expired_kicked
    \/ Running /\ check_expired_notified
    \/ Running /\ check_notifications
    \/ Running /\ check_notifications_resume

SpecMain == InitMain /\ [][NextMain]_vars

\* main leaves its polling loop (KeyboardInterrupt, SystemExit or the
\* cancellation asyncio.run delivers on a signal) and enters `finally`:
\* `await application.stop()`, `await application.shutdown()`.  The
\* scheduler object is not touched: NotificationScheduler.stop has no
\* caller in the program.
main_finally ==
    /\ main.pc = "running"
    /\ main' = [ main EXCEPT !.pc = "stopping" ]
    /\ last' = NoOp
    /\ hist' = Disturb(hist)
    /\ UNCHANGED << now, db, banned, templates, adm, es, ns, ops >>

\* main returns and asyncio.run tears the loop down: the tasks still
\* pending, the coroutine of a sweep suspended at an await among them,
\* are cancelled where they stand
main_exit ==
    /\ main.pc = "stopping"
    /\ main' = [ main EXCEPT !.pc = "stopped" ]
    /\ adm' = AdmIdle
    /\ es' = EsIdle
    /\ ns' = NsIdle
    /\ last' = NoOp
    /\ hist' = Disturb(hist)
    /\ UNCHANGED << now, db, banned, templates, ops >>

\* the event loop runs: main is in its polling loop or in its finally block
Alive == main.pc \in { "running", "stopping" }

\* The process from its polling loop to its exit: grants and the two
\* periodic sweeps, which go on while main is in its finally block, and
\* the shutdown.
NextShutdown ==
    \/ Alive /\ Tick(SweepSteps, MaxMainTime)
    \/ \E u \in SweepUsers, d \in SweepDurations :
          Running /\ ops < MaxMainOps /\ get_subscription_await(u, d)
    \/ Alive /\ get_subscription_resume
    \/ Alive /\ check_expired_subscriptions
    \/ Alive /\ check_expired_kicked
    \/ Alive /\ check_expired_notified
    \/ Alive /\ check_notifications
    \/ Alive /\ check_notifications_resume
    \/ main_finally
    \/ main_exit

SpecShutdown == Init /\ [][NextShutdown]_vars

\* The admin handlers of a fair specification
AdminLive(max) ==
    \/ \E u \in SweepUsers, d \in SweepDurations :
          ops < max /\ get_subscription_await(u, d)
    \/ get_subscription_resume
    \/ \E u \in SweepUsers, d \in SweepDurations :
          ops < max /\ get_edit_await(u, d)
    \/ get_edit_resume
    \/ \E u \in SweepUsers : ops < max /\ edit_remove(u)

\* The notification sweep under the scheduling the code sets up: the
\* interval job of NotificationScheduler.start fires again and again and a
\* started run is resumed when its await completes (weak fairness of the
\* sweep's steps); the notifier, each time it is called, may fail, but does
\* not fail for ever (strong fairness of a successful send).  The expiry
\* sweep neither reads nor writes what this sweep reads and is left out.
NextNotifyLive ==
    \/ Tick(SweepSteps, MaxTime)
    \/ AdminLive(MaxLiveOps)
    \/ check_notifications
    \/ check_notifications_resume

\* the ids the notification entries of a behaviour can have
LiveIds == 1..(2 * MaxLiveOps)

\* a step of the notification sweep that hands entry id to the notifier,
\* and the notifier succeeds
SendOk(id) ==
    /\ check_notifications \/ check_notifications_resume
    /\ ns'.pc = "send"
    /\ ns'.cur[1].id = id
    /\ ns'.outcome = "ok"

SpecNotifyLive ==
    /\ Init
    /\ [][NextNotifyLive]_vars
    /\ WF_vars(check_notifications \/ check_notifications_resume)
    /\ SF_vars(\E id \in LiveIds : SendOk(id))

\* The expiry sweep under the scheduling the code sets up: weak fairness of
\* the sweep's steps, and the gateway's ban, each time it is called, may
\* fail, but does not fail for ever.  The notification sweep neither reads
\* nor writes the status or the ban list and is left out.
NextExpiryLive ==
    \/ Tick(SweepSteps, MaxTime)
    \/ AdminLive(MaxExpiryLiveOps)
    \/ check_expired_subscriptions
    \/ check_expired_kicked
    \/ check_expired_notified

\* a step of the expiry sweep that asks the gateway to ban u, and the ban
\* succeeds
KickOk(u) ==
    /\ check_expired_subscriptions \/ check_expired_kicked \/ check_expired_notified
    /\ es'.pc = "kick"
    /\ es'.user_id = u
    /\ es'.success

SpecExpiryLive ==
    /\ Init
    /\ [][NextExpiryLive]_vars
    /\ WF_vars(check_expired_subscriptions \/ check_expired_kicked
                    \/ check_expired_notified)
    /\ SF_vars(\E u \in SweepUsers : KickOk(u))

\* ---------------------------------------------------------------- claims
\* the stored row of a user has the given status
HasStatus(u, status) == u \in DOMAIN subscribers /\ subscribers[u].status = status

\* C1: within a run of the expiry sweep a subscriber's status becomes
\* expired only in the step that follows a ban that returned success for
\* that subscriber, and a subscriber whose ban failed in the run is still
\* active (if its row still exists) during the rest of the run and when
\* the run has ended.
C1_ExpiredOnlyAfterRevoke ==
    /\ [][ \A u \in DOMAIN subscribers \cap DOMAIN subscribers' :
             (subscribers[u].status # "expired" /\ subscribers'[u].status = "expired")
                => (es.pc = "kick" /\ es.user_id = u /\ es.success) ]_vars
    /\ [](\A u \in hist.kickFailed :
             u \in DOMAIN subscribers => subscribers[u].status = "active")

\* C1 witness: a sweep has ended, the ban of a subscriber past its
\* validUntil failed in it, and the subscriber is still active.
C1_Witness ==
    /\ es.pc = "idle"
    /\ \E u \in hist.kickFailed :
          /\ HasStatus(u, "active")
          /\ subscribers[u].subscription_end <= now

\* C2: in every reachable state a subscriber whose stored status is
\* expired is banned at the access gateway.
C2_ExpiredImpliesRevoked ==
    \A u \in DOMAIN subscribers :
        subscribers[u].status = "expired" => u \in banned

\* C3: an entry's sent flag goes from false to true only in the step that
\* resumes the notification sweep after the send for that entry returned;
\* the step that resumes it after the send raised leaves the ledger as it
\* was; and the fetch of a sweep returns every entry whose latest send
\* raised, as long as the entry is still unsent and its subscriber exists.
C3_MarkedOnlyAfterSend ==
    /\ [][ \A n \in notifications : \A m \in notifications' :
             (m.id = n.id /\ ~n.sent /\ m.sent)
                => (ns.pc = "send" /\ ns.cur[1].id = n.id /\ ns.outcome = "ok") ]_vars
    /\ [][ (ns.pc = "send" /\ ns.outcome = "raise" /\ ns' # ns)
                => notifications' = notifications ]_vars
    /\ [][ last'.op = "fetch"
                => \A n \in notifications :
                     (n.id \in hist.threw /\ ~n.sent /\ n.user_id \in DOMAIN subscribers)
                        => n.id \in last'.selected ]_vars

\* C3 witness: a sweep has just fetched its entries, and one that it has
\* not yet come to is unsent because its send raised in an earlier sweep.
C3_Witness ==
    /\ last.op = "fetch"
    /\ \E i \in 1..Len(ns.todo) :
          /\ ns.todo[i].id \in hist.threw
          /\ ns.todo[i].id \in last.selected
          /\ ns.todo[i] \in notifications

Did(op) == last.op = op /\ last.ok

\* the kind and due time of the interval entries the last operation inserted
InsertedIntervals ==
    { << n.notification_type, n.notification_date >> :
        n \in { m \in last.inserted : m.notification_type # "5_seconds" } }

\* The bucket table as the specification states it: for a total duration in
\* seconds, the kinds and their offsets before validUntil, in seconds.
SpecBucket(total) ==
    IF total >= 1440 * 60
        THEN { << "7_days", 7 * 86400 >>, << "3_days", 3 * 86400 >>,
               << "1_days", 86400 >>, << "0_days", 0 >> }
    ELSE IF total >= 60 * 60
        THEN { << "60_minutes", 3600 >>, << "30_minutes", 1800 >>,
               << "10_minutes", 600 >>, << "0_minutes", 0 >> }
    ELSE { << "10_minutes", 600 >>, << "5_minutes", 300 >>,
           << "2_minutes", 120 >>, << "1_minutes", 60 >>, << "0_minutes", 0 >> }

\* the entries of a bucket that are due after t, for a window ending at end
SpecPlan(bucket, end, t) ==
    { << k[1], end - k[2] >> : k \in { b \in bucket : end - b[2] > t } }

\* C5: every entry a grant inserts, the 5_seconds entry included, is due
\* after the time of the grant.
C5_GrantInsertsOnlyFuture ==
    Did("add") => \A n \in last.inserted : n.notification_date > last.now

\* C6: every entry an extension inserts is due after the time of the
\* extension.
C6_ExtendInsertsOnlyFuture ==
    Did("extend") => \A n \in last.inserted : n.notification_date > last.now

\* C7: the interval entries a grant or an extension inserts are those of the
\* bucket the total duration (validUntil - validFrom of the stored row)
\* selects: days {7,3,1,0} from 1440 minutes, minutes {60,30,10,0} from 60
\* minutes, minutes {10,5,2,1,0} below, each entry that is due after the
\* time of the operation and no other.
C7_BucketByTotal ==
    (Did("add") \/ Did("extend")) =>
        LET row == subscribers[last.user_id]
        IN  InsertedIntervals =
                SpecPlan(SpecBucket(row.subscription_end - row.subscription_start),
                         row.subscription_end, last.now)

\* C7 witness: a grant of exactly 1440 minutes has inserted the 0_days
\* entry of the day bucket.
C7_Witness ==
    /\ Did("add")
    /\ last.d = <<0, 0, 1440>>
    /\ \E n \in last.inserted : n.notification_type = "0_days"

C9_ExtendAddsToValidUntil ==
    Did("extend") =>
        LET row == subscribers[last.user_id]
        IN  /\ row.subscription_end = last.prev[1].subscription_end
                    + timedelta(last.d[1], last.d[2], last.d[3], 0)
            /\ row.subscription_start = last.prev[1].subscription_start

\* C9 witness: an extension by a positive duration at a time that is not
\* the validUntil it found.
C9_Witness ==
    /\ Did("extend")
    /\ timedelta(last.d[1], last.d[2], last.d[3], 0) > 0
    /\ last.prev[1].subscription_end # last.now
    /\ last.prev[1].subscription_start # last.now

\* the extension the last step made took the window from under one day to
\* one day or more by an increment of less than one day
CrossedIntoDays ==
    /\ Did("extend")
    /\ timedelta(last.d[1], last.d[2], last.d[3], 0) < 86400
    /\ last.prev[1].subscription_end - last.prev[1].subscription_start < 86400
    /\ subscribers[last.user_id].subscription_end
            - subscribers[last.user_id].subscription_start >= 86400

\* C10: an extension that takes the stored window (validUntil - validFrom)
\* from under 1440 minutes to 1440 minutes or more, by an increment under
\* 1440 minutes, inserts the day entries {7,3,1,0}_days that are due after
\* the time of the extension, and no minute entry.
C10_ExtendBucketFromStoredWindow ==
    CrossedIntoDays =>
        LET end == subscribers[last.user_id].subscription_end
        IN  InsertedIntervals =
                { << k, end - o * 86400 >> :
                    << k, o >> \in { x \in { << "7_days", 7 >>, << "3_days", 3 >>,
                                              << "1_days", 1 >>, << "0_days", 0 >> } :
                                      end - x[2] * 86400 > last.now } }

\* C10 witness: such an extension, made after the grant, has inserted the
\* 0_days entry.
C10_Witness ==
    /\ CrossedIntoDays
    /\ last.now > last.prev[1].subscription_start
    /\ \E n \in last.inserted : n.notification_type = "0_days"

\* C11: an extension for a user id that has no stored row returns false and
\* leaves the subscriber table, the notification entries and the audit log
\* as they were.
C11_ExtendUnknownChangesNothing ==
    [][ (adm.pc = "extend" /\ adm' = AdmIdle
            /\ adm.user_id \notin DOMAIN subscribers)
          => /\ last'.op = "extend"
             /\ last'.ok = FALSE
             /\ subscribers' = subscribers
             /\ notifications' = notifications
             /\ logs' = logs ]_vars

\* C11 witness: an extension for an unknown id has returned false while
\* another subscriber has a row, entries and an audit entry.
C11_Witness ==
    /\ last.op = "extend"
    /\ ~last.ok
    /\ last.prev = <<>>
    /\ subscribers # <<>>
    /\ notifications # {}
    /\ logs # <<>>

\* the user has neither a subscriber row nor a notification entry
Absent(u) ==
    /\ u \notin DOMAIN subscribers
    /\ \A n \in notifications : n.user_id # u

\* C12: right after a removal the user has no subscriber row and no
\* notification entry, sent or unsent; and a user without row and entries
\* stays so (hence get_pending_notifications returns no entry of that user)
\* in every step but a successful grant to that user.
C12_RemovedStaysAbsent ==
    /\ [](Did("remove") => Absent(last.user_id))
    /\ [][ \A u \in Users :
             Absent(u) =>
                \/ Absent(u)'
                \/ (last'.op = "add" /\ last'.ok /\ last'.user_id = u) ]_vars
    /\ [](\A n \in get_pending_notifications : ~Absent(n.user_id))

\* C12 witness: a subscriber with a row has been removed while the
\* notification sweep is waiting for the send of one of its entries.
C12_Witness ==
    /\ Did("remove")
    /\ last.prev # <<>>
    /\ ns.pc = "send"
    /\ ns.cur[1].user_id = last.user_id

\* every kind a planning pass can insert, with its offset before validUntil
\* in seconds
PlannedOffsets ==
    SpecBucket(1440 * 60) \cup SpecBucket(60 * 60) \cup SpecBucket(0)
        \cup { << "5_seconds", 5 >> }

\* the unsent entries of a user
Unsent(u) == { n \in notifications : n.user_id = u /\ ~n.sent }

\* C13: every unsent entry belongs to a stored subscriber and is due at
\* that subscriber's current validUntil minus the offset of its kind; and
\* right after a successful grant or extension the subscriber's unsent
\* entries are exactly the entries that operation inserted.
C13_UnsentFromLatestPlan ==
    /\ \A n \in notifications :
          ~n.sent =>
            /\ n.user_id \in DOMAIN subscribers
            /\ \E k \in PlannedOffsets :
                  /\ k[1] = n.notification_type
                  /\ n.notification_date =
                        subscribers[n.user_id].subscription_end - k[2]
    /\ (Did("add") \/ Did("extend")) => Unsent(last.user_id) = last.inserted

\* C13 witness: an extension has moved validUntil of a subscriber that had
\* an unsent entry and a sent one, and has inserted two entries.
C13_Witness ==
    /\ Did("extend")
    /\ last.prev[1].subscription_end # subscribers[last.user_id].subscription_end
    /\ Cardinality(last.inserted) >= 2
    /\ \E n \in notifications : n.user_id = last.user_id /\ n.sent

\* C14: a successful grant to an existing subscriber, or a successful
\* extension, leaves every entry of that subscriber that was already sent
\* in the ledger, unchanged.
C14_ReplanKeepsSent ==
    [][ (last'.op \in { "add", "extend" } /\ last'.ok)
          => \A n \in notifications :
                (n.user_id = last'.user_id /\ n.sent) => n \in notifications' ]_vars

\* C15: a grant that returns false leaves the subscriber table, the
\* notification entries and the audit log exactly as they were; a grant
\* that returns true leaves the upserted row, one more audit entry, and as
\* the subscriber's only entries the ones it inserted.
C15_GrantAllOrNothing ==
    /\ [][ (adm.pc = "add" /\ adm' = AdmIdle /\ ~last'.ok)
              => /\ subscribers' = subscribers
                 /\ notifications' = notifications
                 /\ logs' = logs ]_vars
    /\ [][ (adm.pc = "add" /\ adm' = AdmIdle /\ last'.ok)
              => /\ subscribers'[adm.user_id] =
                      [ subscription_start |-> now,
                        subscription_end |->
                            now + timedelta(adm.d[1], adm.d[2], adm.d[3], 0),
                        status |-> "active" ]
                 /\ logs' = Append(logs, [ action |-> "add", user_id |-> adm.user_id ])
                 /\ last'.inserted # {}
                 /\ last'.inserted \cap notifications = {}
                 /\ { n \in notifications' : n.user_id = adm.user_id }
                        = last'.inserted ]_vars

\* C15 witness: a grant to a subscriber that has a row and entries has
\* returned false after its upsert, its audit INSERT, its DELETE and at
\* least one notification INSERT had been executed.
C15_Witness ==
    /\ last.op = "add"
    /\ ~last.ok
    /\ last.rolled >= 4
    /\ last.prev # <<>>
    /\ Unsent(last.user_id) # {}
    /\ subscribers[last.user_id].subscription_start # last.now

\* C16: a stored status is active or expired, and the status of a stored
\* subscriber changes only from active to expired in the step of the expiry
\* sweep that follows a successful ban of that subscriber, whose validUntil
\* is then <= now, or from expired to active by an extension.
C16_StatusTransitions ==
    /\ [](\A u \in DOMAIN subscribers :
             subscribers[u].status \in { "active", "expired" })
    /\ [][ \A u \in DOMAIN subscribers \cap DOMAIN subscribers' :
             subscribers[u].status # subscribers'[u].status =>
                \/ /\ subscribers[u].status = "active"
                   /\ subscribers'[u].status = "expired"
                   /\ es.pc = "kick" /\ es.user_id = u /\ es.success
                   /\ subscribers[u].subscription_end <= now
                \/ /\ subscribers[u].status = "expired"
                   /\ subscribers'[u].status = "active"
                   /\ last'.op = "extend" /\ last'.user_id = u ]_vars

\* C17: a successful grant to a user id that has a row keeps the set of
\* stored ids as it was and leaves for that id the row validFrom = time of
\* the grant, validUntil = that time plus the duration, status active,
\* whatever the row held before.
C17_RegrantOverwrites ==
    [][ (adm.pc = "add" /\ adm' = AdmIdle /\ last'.ok
            /\ adm.user_id \in DOMAIN subscribers)
          => /\ DOMAIN subscribers' = DOMAIN subscribers
             /\ subscribers'[adm.user_id].subscription_start = now
             /\ subscribers'[adm.user_id].subscription_end =
                    now + timedelta(adm.d[1], adm.d[2], adm.d[3], 0)
             /\ subscribers'[adm.user_id].status = "active" ]_vars

\* C17 witness: a grant to a subscriber whose row was expired, with another
\* validUntil, has succeeded.
C17_Witness ==
    /\ Did("add")
    /\ last.prev # <<>>
    /\ last.prev[1].status = "expired"
    /\ last.prev[1].subscription_end # subscribers[last.user_id].subscription_end

\* C18: right after a successful grant the stored validUntil is later than
\* the stored validFrom, for every duration the grant handlers pass on.
C18_GrantWindowPositive ==
    Did("add") =>
        subscribers[last.user_id].subscription_end
            > subscribers[last.user_id].subscription_start

\* C19: while a force check runs beside the periodic notification sweep,
\* no entry is handed to the notifier with success a second time.
C19_ForceCheckDeliversOnce ==
    hist.again = {}

\* C20: whenever the expiry sweep writes the status expired, the validUntil
\* stored for that subscriber at that moment is <= now, whatever grant or
\* extension ran while the sweep was waiting for the ban.
C20_ExpiredOnlyPastValidUntil ==
    [][ \A u \in DOMAIN subscribers \cap DOMAIN subscribers' :
          (es.pc = "kick" /\ es.user_id = u
              /\ subscribers[u].status # "expired"
              /\ subscribers'[u].status = "expired")
            => subscribers'[u].subscription_end <= now ]_vars

\* C21: every entry the notification sweep hands to the notifier with
\* success is, at that moment, an entry of the ledger: none that a
\* committed grant or extension has deleted as superseded is delivered,
\* also when the sweep had fetched it before the commit.
C21_NoSupersededDelivery ==
    [][ (ns'.pc = "send" /\ ns' # ns /\ ns'.outcome = "ok")
          => \E n \in notifications : n.id = ns'.cur[1].id ]_vars

\* C22: an entry that is sent is not written again: as long as it is in the
\* ledger its sent flag stays true and its sentAt keeps the value of the
\* first mark.
C22_MarkedOnce ==
    [][ \A n \in notifications : \A m \in notifications' :
          (n.sent /\ m.id = n.id) => m = n ]_vars

\* the kind and due time of every entry the last operation inserted
InsertedAll ==
    { << n.notification_type, n.notification_date >> : n \in last.inserted }

\* C25 (as stated): a grant of exactly 3 minutes at time T inserts the
\* 1_minutes and 0_minutes entries and the 5_seconds entry due at
\* T + 3 min - 5 s, and no other entry.
C25_ThreeMinuteGrantAsStated ==
    (Did("add") /\ last.d = <<0, 0, 3>>) =>
        InsertedAll = { << "1_minutes", last.now + 120 >>,
                        << "0_minutes", last.now + 180 >>,
                        << "5_seconds", last.now + 175 >> }

\* C25 (amended): a grant of exactly 3 minutes at time T inserts, of the
\* kinds {10,5,2,1,0}_minutes, those due after T, which are 2_minutes
\* (T + 1 min), 1_minutes (T + 2 min) and 0_minutes (T + 3 min), and the
\* 5_seconds entry due at T + 3 min - 5 s, and no other entry.
C25_ThreeMinuteGrant ==
    (Did("add") /\ last.d = <<0, 0, 3>>) =>
        InsertedAll = { << "2_minutes", last.now + 60 >>,
                        << "1_minutes", last.now + 120 >>,
                        << "0_minutes", last.now + 180 >>,
                        << "5_seconds", last.now + 175 >> }

\* C25 witness: a grant of 3 minutes made at a time other than 0 to a
\* subscriber that had entries before.
C25_Witness ==
    /\ Did("add")
    /\ last.d = <<0, 0, 3>>
    /\ last.now > 0
    /\ last.prev # <<>>
    /\ Cardinality(last.inserted) = 4

\* C26 (as stated): the ledger holds at most one entry per pair of
\* subscriber and kind, sent and unsent entries counted together.
C26_OnePerKindAsStated ==
    \A n, m \in notifications :
        (n.user_id = m.user_id /\ n.notification_type = m.notification_type)
            => n = m

\* C26 (amended): the ledger holds at most one unsent entry per pair of
\* subscriber and kind; sent entries of the same pair are kept beside it.
C26_OneUnsentPerKind ==
    \A n, m \in notifications :
        (n.user_id = m.user_id /\ n.notification_type = m.notification_type
            /\ ~n.sent /\ ~m.sent)
            => n = m

\* C26 witness: a subscriber has a sent entry and an unsent entry of the
\* same kind.
C26_Witness ==
    \E n, m \in notifications :
        /\ n.user_id = m.user_id
        /\ n.notification_type = m.notification_type
        /\ n.sent
        /\ ~m.sent

\* C27: whenever a grant or extend handler has called the store
\* (add_subscriber / extend_subscription), it had called the gateway's
\* restore (unban_user_from_channel) for that same subscriber before.
C27_RestoreBeforeStore ==
    last.op \in { "add", "extend" } => last.user_id \in hist.restored

\* C27 witness: a grant has committed after its restore call, and the call
\* had failed: the subscriber is still banned.
C27_Witness ==
    /\ Did("add")
    /\ last.user_id \in hist.restored
    /\ last.user_id \in banned

\* C28: within one run of a periodic sweep no entry is handed to the
\* notifier twice and no subscriber is handed to the gateway's ban twice,
\* whether the first call returned or raised.
C28_OneAttemptPerRun ==
    ~hist.retried

\* C28 witness: a run of the notification sweep has gone on to a second
\* entry after the send of an earlier one raised, and the earlier one is
\* not among the entries it still has to visit.
C28_Witness ==
    /\ ns.pc = "send"
    /\ Cardinality(hist.nsTried) >= 2
    /\ \E id \in hist.nsTried \cap hist.threw :
          /\ id # ns.cur[1].id
          /\ \A i \in 1..Len(ns.todo) : ns.todo[i].id # id

\* entry id is in the ledger, unsent, due, of a kind that has a message,
\* and its subscriber has a row
DueRecognised(id) ==
    \E n \in notifications :
        /\ n.id = id
        /\ ~n.sent
        /\ n.notification_date <= now
        /\ has_message(n)

\* entry id is marked sent, or is no longer in the ledger (its subscriber
\* was removed or replanned)
Settled(id) == \A n \in notifications : n.id = id => n.sent

\* C23: under the fairness of SpecNotifyLive every unsent entry that is due, of a
\* recognised kind and of a stored subscriber is eventually marked sent
\* (after a send that succeeded, by C3), unless a removal or a replanning
\* deletes it first.
C23_DueEventuallySent ==
    \A id \in LiveIds : DueRecognised(id) ~> Settled(id)

\* C23 witness: an entry was marked sent a sweep interval or more after it
\* fell due.
C23_Witness ==
    \E n \in notifications :
        /\ n.sent
        /\ n.sent_at >= n.notification_date + 60

\* C24: under the fairness of SpecExpiryLive every subscriber that is
\* active with validUntil <= now eventually has the status expired, unless
\* it is removed or its validUntil is moved past now first; a failed ban
\* leaves it active (C1) and a later run of the sweep bans again.
C24_PastValidUntilEventuallyExpired ==
    \A u \in SweepUsers :
        (HasStatus(u, "active") /\ subscribers[u].subscription_end <= now)
            ~> \/ u \notin DOMAIN subscribers
               \/ subscribers[u].status = "expired"
               \/ subscribers[u].subscription_end > now

\* C24 witness: a ban of the expiry sweep has failed a sweep interval or
\* more after the subscriber's validUntil, and the subscriber is still
\* active: the case the later runs have to pick up.
C24_Witness ==
    /\ es.pc = "kick"
    /\ ~es.success
    /\ HasStatus(es.user_id, "active")
    /\ now >= subscribers[es.user_id].subscription_end + 60

\* the Database methods that write
Writing == { "add_subscriber", "extend_subscription", "remove_subscriber",
             "update_subscriber_status", "mark_notification_sent" }

\* C29: a failure of the storage inside a Database method never reaches the
\* caller as an exception; the step in which a writing method failed leaves
\* subscribers, ledger and log as they were and reports no success, a
\* failed get_pending_notifications or get_all_subscribers hands its sweep
\* an empty list and the run ends, and after a failed
\* update_subscriber_status or mark_notification_sent the run goes on (to
\* the kicked message, to the next entry or to its end).
C29_StorageFailureContained ==
    /\ [](hist.escaped = {})
    /\ [][ /\ last'.failure \cap Writing # {} =>
                /\ subscribers' = subscribers
                /\ notifications' = notifications
                /\ logs' = logs
           /\ last'.failure # {} => ~last'.ok /\ last'.inserted = {}
           /\ "get_pending_notifications" \in last'.failure =>
                last'.selected = {} /\ ns' = NsIdle
           /\ "get_all_subscribers" \in last'.failure => es' = EsIdle
           /\ "update_subscriber_status" \in last'.failure => es'.pc = "notify"
           /\ "mark_notification_sent" \in last'.failure =>
                \/ ns' = NsIdle
                \/ ns'.pc = "send" /\ ns'.cur # ns.cur ]_vars

\* C29 witness: mark_notification_sent failed after a send that returned,
\* the entry is still unsent, and the run has gone on to its next entry.
C29_Witness ==
    /\ "mark_notification_sent" \in last.failure
    /\ ns.pc = "send"
    /\ \E n \in notifications :
          /\ ~n.sent
          /\ n.notification_date <= now
          /\ has_message(n)
          /\ n.id \notin Ids(ns.cur \o ns.todo)

\* C30: when the token or the channel id is missing, main never gets past
\* its checks: no database, handler or scheduler is created, no sweep and
\* no handler runs, the store stays empty and neither the gateway nor the
\* notifier is called.
C30_MissingConfigStopsStartup ==
    (~main.BOT_TOKEN \/ ~main.CHANNEL_ID) =>
        /\ main.pc \in { "start", "returned" }
        /\ main.created = {}
        /\ subscribers = <<>> /\ notifications = {} /\ logs = <<>>
        /\ nextId = 1
        /\ banned = {}
        /\ adm = AdmIdle /\ es = EsIdle /\ ns = NsIdle
        /\ ops = 0 /\ last = NoOp /\ hist = NoHist

\* C30 witness: main has returned with a token and without a channel id.
C30_Witness ==
    /\ main.pc = "returned"
    /\ main.BOT_TOKEN
    /\ ~main.CHANNEL_ID

\* C31: the process stops its scheduler cleanly: once main has left its
\* polling loop no new run of a sweep starts, and when the process ends
\* every run that was in flight has reached the end of its rows.
C31_ShutdownLetsSweepsFinish ==
    [][ /\ main.pc = "stopping" =>
              /\ ns.pc = "idle" => ns'.pc = "idle"
              /\ es.pc = "idle" => es'.pc = "idle"
        /\ main'.pc = "stopped" /\ main.pc # "stopped" =>
              ns.pc = "idle" /\ es.pc = "idle" ]_vars

\* the kind has a template of its own or is one of the two the fallback
\* branch names
Recognised(type) ==
    type \in templates \/ type = "0_days" \/ type = "0_minutes"

\* C32: an entry of a kind without template, other than 0_days and
\* 0_minutes, is never handed to the notifier and never marked sent, and a
\* run that meets one goes on: after the fetch and after every send the
\* run is at the next entry that has a subscriber row and a message
\* exactly when the rows it still has to visit hold one.
C32_UnrecognisedKindSkipped ==
    /\ [](ns.pc = "send" => Recognised(ns.cur[1].notification_type))
    /\ [](\A n \in notifications : n.sent => Recognised(n.notification_type))
    /\ [][ last'.op = "fetch" =>
             (ns'.pc = "send" <=>
                \E n \in notifications : n.id \in last'.selected /\ has_message(n)) ]_vars
    /\ [][ ns.pc = "send" /\ ns' # ns =>
             (ns'.pc = "send" <=>
                \E i \in 1..Len(ns.todo) : has_message(ns.todo[i])) ]_vars

\* C32 witness: a run has fetched a due entry of a kind without message
\* together with one that has a message, has passed over the first, which
\* stays unsent, and is sending the second.
C32_Witness ==
    /\ last.op = "fetch"
    /\ ns.pc = "send"
    /\ \E n \in notifications :
          /\ n.id \in last.selected
          /\ ~Recognised(n.notification_type)
          /\ ~n.sent
          /\ n.id \notin Ids(ns.cur \o ns.todo)

\* C33: what get_pending_notifications hands to a run of the sweep is
\* exactly the entries that are unsent, due at the time of the call and of
\* a user that has a subscriber row, whatever the status of that row.
C33_PendingExactlyUnsentDue ==
    [][ last'.op = "fetch" =>
          last'.selected =
            { n.id : n \in { m \in notifications :
                               /\ ~m.sent
                               /\ m.notification_date <= now
                               /\ m.user_id \in DOMAIN subscribers } } ]_vars

\* C33 witness: the fetch has returned an entry of an expired subscriber
\* and left out an entry of the same subscriber that is sent.
C33_Witness ==
    /\ last.op = "fetch"
    /\ \E n, m \in notifications :
          /\ n.id \in last.selected
          /\ HasStatus(n.user_id, "expired")
          /\ m.user_id = n.user_id
          /\ m.sent
          /\ m.id \notin last.selected

\* the active rows whose validUntil is not after now
PastValidUntil ==
    { u \in DOMAIN subscribers :
        /\ subscribers[u].status = "active"
        /\ subscribers[u].subscription_end <= now }

\* C34: an extend that succeeds on an expired subscriber leaves it active,
\* also when its new validUntil is not after now; and a run of the expiry
\* sweep that starts while a subscriber is active with validUntil <= now
\* selects it: the run bans it first or has it among the rows to visit.
C34_ExtendRevivesExpired ==
    /\ [][ /\ last'.op = "extend" /\ last'.ok
           /\ last'.prev[1].status = "expired"
           => subscribers'[last'.user_id].status = "active" ]_vars
    /\ [][ es.pc = "idle" /\ es'.pc # "idle" =>
             \A u \in PastValidUntil :
                \/ es'.user_id = u
                \/ \E i \in 1..Len(es'.todo) : es'.todo[i].user_id = u ]_vars

\* C34 witness: an extend has just made an expired subscriber active with a
\* validUntil that is not after now.
C34_Witness ==
    /\ last.op = "extend"
    /\ last.ok
    /\ last.prev[1].status = "expired"
    /\ last.user_id \in PastValidUntil

\* C35: the expiry sweep sends the kicked message of a subscriber only when
\* the ban of that subscriber succeeded and the status has been written;
\* when the message cannot be delivered the rows stay as they are, the
\* status stays expired, and the run goes on to the next row of its list.
C35_KickedMessageAfterRevoke ==
    /\ [][ es'.pc = "notify" /\ es.pc # "notify" =>
             /\ es.pc = "kick" /\ es.success
             /\ es'.user_id = es.user_id
             /\ es.user_id \in DOMAIN subscribers' =>
                  subscribers'[es.user_id].status = "expired" ]_vars
    /\ [][ last'.op = "send_raised" =>
             /\ subscribers' = subscribers
             /\ IF es.todo = <<>>
                  THEN es' = EsIdle
                  ELSE /\ es'.pc = "kick"
                       /\ es'.user_id = es.todo[1].user_id
                       /\ es'.todo = Tail(es.todo) ]_vars

\* C35 witness: the kicked message of one subscriber has raised, that
\* subscriber is expired, and the run is at the ban of the next one.
C35_Witness ==
    /\ last.op = "send_raised"
    /\ HasStatus(last.user_id, "expired")
    /\ es.pc = "kick"
    /\ es.user_id # last.user_id

\* C36: no step of the expiry sweep inserts, deletes or changes an entry
\* of the ledger, and no step of the notification sweep changes a
\* subscriber row.
C36_SweepsWriteDisjoint ==
    /\ [][ es' # es => notifications' = notifications ]_vars
    /\ [][ ns' # ns => subscribers' = subscribers ]_vars

\* C36 witness: the expiry sweep has just set a subscriber to expired
\* whose ledger holds an entry the notification sweep has marked and an
\* entry that is still unsent.
C36_Witness ==
    /\ es.pc = "notify"
    /\ HasStatus(es.user_id, "expired")
    /\ \E n, m \in notifications :
          /\ n.user_id = es.user_id /\ n.sent
          /\ m.user_id = es.user_id /\ ~m.sent

\* C37: the log only grows, and by one entry at a time: a grant that
\* succeeded appends one 'add' entry for its user, an extend that
\* succeeded one 'extend' entry for its user, and every other step (a grant
\* or an extend that failed, a removal, a clock tick) leaves the log as it
\* was.
C37_LogAppendOnly ==
    [][ /\ last'.op = "add" /\ last'.ok =>
             logs' = Append(logs, [ action |-> "add", user_id |-> last'.user_id ])
        /\ last'.op = "extend" /\ last'.ok =>
             logs' = Append(logs, [ action |-> "extend", user_id |-> last'.user_id ])
        /\ ~(last'.op \in { "add", "extend" } /\ last'.ok) => logs' = logs ]_vars

\* C37 witness: a subscriber that was granted has just been removed, and
\* the log still holds the entry of the grant.
C37_Witness ==
    /\ last.op = "remove"
    /\ last.ok
    /\ last.prev # <<>>
    /\ Absent(last.user_id)
    /\ \E i \in 1..Len(logs) :
          logs[i] = [ action |-> "add", user_id |-> last.user_id ]

\* C38: the handler of a join request chooses approve exactly when the
\* store holds a row of the user that is active with validUntil after now;
\* whenever it chooses otherwise the request is declined and the gateway
\* is asked to ban the user.
C38_JoinApprovedIffActive ==
    [][ /\ last'.op = "join" =>
             (last'.ok <=> /\ last'.prev # <<>>
                           /\ last'.prev[1].status = "active"
                           /\ last'.prev[1].subscription_end > now)
        /\ last'.op = "decline" => last'.ok ]_vars

\* C39: in the remove flow the gateway is asked to ban only when
\* remove_subscriber returned True, that is after the row and its entries
\* are gone; when it returned False the ban list, the rows and the ledger
\* are as they were.
C39_RevokeOnlyAfterRemoval ==
    [][ last'.op = "remove" =>
          /\ banned' # banned =>
               /\ last'.ok
               /\ last'.user_id \notin DOMAIN subscribers'
               /\ \A n \in notifications' : n.user_id # last'.user_id
          /\ ~last'.ok =>
               /\ banned' = banned
               /\ subscribers' = subscribers
               /\ notifications' = notifications ]_vars

\* C39 witness: the removal of a subscriber with unsent entries has just
\* failed; the row and the entries are there and the user is not banned.
C39_Witness ==
    /\ last.op = "remove"
    /\ ~last.ok
    /\ last.user_id \in DOMAIN subscribers
    /\ \E n \in notifications : n.user_id = last.user_id /\ ~n.sent
    /\ last.user_id \notin banned

\* the users of a listing, and whether it ascends in validUntil
ListedUsers(listing) == { listing[i].user_id : i \in 1..Len(listing) }
Ascending(listing) ==
    \A i, j \in 1..Len(listing) :
        i < j => subscribers[listing[i].user_id].subscription_end
                   <= subscribers[listing[j].user_id].subscription_end

\* C40: a listing holds every subscriber of the status asked for (every
\* subscriber when none is asked for), each once and no other, in
\* non-decreasing order of validUntil: for the two listings of the admin
\* and for the listing of the active rows the expiry sweep starts from.
C40_ListingExactAndOrdered ==
    /\ [][ last'.op = "list_all" =>
             /\ ListedUsers(last'.prev) = DOMAIN subscribers
             /\ Len(last'.prev) = Cardinality(DOMAIN subscribers)
             /\ Ascending(last'.prev) ]_vars
    /\ [][ last'.op = "list_expired" =>
             /\ ListedUsers(last'.prev) =
                  { u \in DOMAIN subscribers : subscribers[u].status = "expired" }
             /\ Len(last'.prev) = Cardinality(ListedUsers(last'.prev))
             /\ Ascending(last'.prev) ]_vars
    /\ [][ es.pc = "idle" /\ es'.pc # "idle" =>
             LET run == << [ user_id |-> es'.user_id ] >> \o es'.todo
             IN  /\ ListedUsers(run) = PastValidUntil
                 /\ Len(run) = Cardinality(PastValidUntil)
                 /\ Ascending(run) ]_vars

\* C40 witness: a listing without status has returned an active and an
\* expired subscriber with different validUntil.
C40_Witness ==
    /\ last.op = "list_all"
    /\ Len(last.prev) = 2
    /\ last.prev[1].subscription_end < last.prev[2].subscription_end
    /\ \E i, j \in 1..2 :
          /\ HasStatus(last.prev[i].user_id, "active")
          /\ HasStatus(last.prev[j].user_id, "expired")

====
